---- MODULE Spec2Model ----
(***************************************************************************)
(* egui_animate: the Animation / AnimationSegment data model and the       *)
(* scoped application of a segment (src/src/anim.rs), the effect functions *)
(* of the example (src/examples/example.rs), and the per-identity          *)
(* transition driver `animate`, whose source is not part of the excerpt    *)
(* and is modelled from the design text (4.4).                             *)
(*                                                                         *)
(* Durations and times are finite non-negative f32 values.  Every finite   *)
(* f32 is an integer multiple of the smallest positive f32, 2^-149; a      *)
(* value is written as that integer.  Below 2^24 such steps every natural  *)
(* is an f32, so addition, subtraction and comparison are exact there and  *)
(* only halving an odd count rounds (to nearest, ties to even).            *)
(*                                                                         *)
(* A progress value ("normal") is the f32 quotient of two such values; it  *)
(* is kept as the pair <<numerator, denominator>>.                         *)
(***************************************************************************)
EXTENDS Integers, Sequences, FiniteSets, TLC

\* ------------------------------------------------------------------ bounds
MaxDur == 3
MaxTime == 4
MaxStep == 2

Durations == 0..MaxDur
\* The values the caller's datum takes (a u8 in the example).
Values == {3, 4}
Ids == {"a", "b"}

\* ------------------------------------------------------------ f32 helpers
\* `x / 2.0` on an f32 below 2^24 steps: exact for an even count, otherwise
\* the two neighbours are equally near and the one with the even count wins.
F32Half(n) ==
  IF n % 2 = 0 THEN n \div 2
  ELSE LET lo == (n - 1) \div 2
       IN IF lo % 2 = 0 THEN lo ELSE lo + 1

\* `a + b` on f32 values whose sum stays below 2^24 steps: exact.
F32Add(a, b) == a + b

\* Progress values: <<numerator, denominator>>.
One == <<1, 1>>
Zero == <<0, 1>>
RLe(a, b) == a[1] * b[2] <= b[1] * a[2]
REq(a, b) == a[1] * b[2] = b[1] * a[2]
\* `1.0 - normal`
OneMinus(normal) == <<normal[2] - normal[1], normal[2]>>
\* `a * b`
RMul(a, b) == <<a[1] * b[1], a[2] * b[2]>>

\* ------------------------------------------------------- AnimationSegment
\* The function of AnimationSegment::EMPTY, `|_, _| {}`.
NoopFn == "noop"

\* An EMPTY segment that lasts.
AnimationSegment_EMPTY_timed == [duration |-> 1, anim_fn |-> NoopFn]

AnimationSegment_EMPTY == [duration |-> 0, anim_fn |-> NoopFn]

AnimationSegment_new(duration, animation) ==
  [duration |-> duration, anim_fn |-> animation]

AnimationSegment_duration(seg) == seg.duration

AnimationSegment_anim_fn(seg) == seg.anim_fn

\* -------------------------------------------------------------- Animation
Animation_from_segments(out_seg, in_seg) ==
  [out_seg |-> out_seg, in_seg |-> in_seg]

\* An EMPTY animation whose segments last.
Animation_EMPTY_timed ==
  Animation_from_segments(AnimationSegment_new(1, NoopFn),
                          AnimationSegment_new(1, NoopFn))

Animation_EMPTY ==
  Animation_from_segments(AnimationSegment_EMPTY, AnimationSegment_EMPTY)

\* The total duration given to each segment, not split.
Animation_new_unsplit(duration, out_fn, in_fn) ==
  [out_seg |-> AnimationSegment_new(duration, out_fn),
   in_seg |-> AnimationSegment_new(duration, in_fn)]

Animation_new(duration, out_fn, in_fn) ==
  LET segment_duration == F32Half(duration)
      out_seg == AnimationSegment_new(segment_duration, out_fn)
      in_seg == AnimationSegment_new(segment_duration, in_fn)
  IN [out_seg |-> out_seg, in_seg |-> in_seg]

Animation_new_out(duration, out_fn) ==
  LET out_seg == AnimationSegment_new(duration, out_fn)
      in_seg == AnimationSegment_EMPTY
  IN [out_seg |-> out_seg, in_seg |-> in_seg]

\* new_in filling the out segment, as new_out does.
Animation_new_in_as_out(duration, out_fn) ==
  [out_seg |-> AnimationSegment_new(duration, out_fn),
   in_seg |-> AnimationSegment_EMPTY]

Animation_new_in(duration, out_fn) ==
  LET out_seg == AnimationSegment_EMPTY
      in_seg == AnimationSegment_new(duration, out_fn)
  IN [out_seg |-> out_seg, in_seg |-> in_seg]

\* The out segment alone.
Animation_duration_out_only(self) == self.out_seg.duration

\* The out segment counted twice, the in segment not at all.
Animation_duration_out_twice(self) ==
  F32Add(self.out_seg.duration, self.out_seg.duration)

Animation_duration(self) ==
  F32Add(self.out_seg.duration, self.in_seg.duration)

\* ------------------------------------------------ the rendering scope (Ui)
\* A Ui is [id, layer, opacity, clip, text_color]: id is the path of id salts
\* from the root, layer is <<order, id>>,
\* opacity the painter's opacity, clip the width of the clip rectangle as a
\* fraction of the inherited one, text_color the override_text_color (some =
\* FALSE: no override; red: the share of the red range added).  to_global is
\* the context's transform per layer (set = FALSE: none; x: the translation).
SLIDE_DISTANCE == 10

NoColor == [some |-> FALSE, red |-> Zero]
NoTransform == [set |-> FALSE, x |-> Zero]

\* The scopes `animate` is called from: the example's central panel, and a
\* second one on another order with an inherited opacity of its own.
ParentNames == {"central_panel", "window"}
InitialParents ==
  [p \in ParentNames |->
     IF p = "central_panel"
     THEN [id |-> <<"central_panel">>, layer |-> <<"Background", "background">>,
           opacity |-> One, clip |-> One, text_color |-> NoColor]
     ELSE [id |-> <<"window">>, layer |-> <<"Middle", "window">>,
           opacity |-> <<1, 2>>, clip |-> One, text_color |-> NoColor]]

Orders == {"Background", "Middle"}
Layers == Orders \X (Ids \cup {"background", "window"})

\* ----------------------------------------- the example's effect functions
\* Each takes the scope [ui, to_global] it is handed and the normal.
fade_OUT(s, normal) ==
  [s EXCEPT !.ui.opacity = OneMinus(normal)]

fade_IN(s, normal) ==
  [s EXCEPT !.ui.opacity = normal]

slide_left_OUT(s, normal) ==
  [s EXCEPT !.to_global[s.ui.layer] =
     [set |-> TRUE, x |-> <<0 - (normal[1] * SLIDE_DISTANCE), normal[2]>>]]

slide_left_IN(s, normal) ==
  [s EXCEPT !.to_global[s.ui.layer] =
     [set |-> TRUE,
      x |-> <<(SLIDE_DISTANCE * normal[2]) - (normal[1] * SLIDE_DISTANCE),
              normal[2]>>]]

slide_fade_left_OUT(s, normal) ==
  slide_left_OUT(fade_OUT(s, normal), normal)

slide_fade_left_IN(s, normal) ==
  slide_left_IN(fade_IN(s, normal), normal)

clip_width_IN(s, normal) ==
  [s EXCEPT !.ui.clip = RMul(s.ui.clip, normal)]

clip_width_OUT(s, normal) ==
  clip_width_IN(s, OneMinus(normal))

fade_red_IN(s, normal) ==
  LET inverse_normal == OneMinus(normal)
      s1 == [s EXCEPT !.ui.text_color = [some |-> TRUE, red |-> inverse_normal]]
      s2 == [s1 EXCEPT !.ui.opacity = normal]
  IN fade_IN(s2, normal)

fade_red_OUT(s, normal) ==
  fade_red_IN(s, OneMinus(normal))

\* The (out, in) pairs an AnimationType offers (AnimationType::out_fn / in_fn).
EffectPairs ==
  { <<"slide_fade_left::OUT", "slide_fade_left::IN">>,
    <<"clip_width::OUT", "clip_width::IN">>,
    <<"fade_red::OUT", "fade_red::IN">> }

\* Calling a stored function pointer: `(self.anim_fn)(ui, normal)`.
CallFn(f, s, normal) ==
  CASE f = "slide_fade_left::OUT" -> slide_fade_left_OUT(s, normal)
    [] f = "slide_fade_left::IN" -> slide_fade_left_IN(s, normal)
    [] f = "clip_width::OUT" -> clip_width_OUT(s, normal)
    [] f = "clip_width::IN" -> clip_width_IN(s, normal)
    [] f = "fade_red::OUT" -> fade_red_OUT(s, normal)
    [] f = "fade_red::IN" -> fade_red_IN(s, normal)
    [] OTHER -> s

\* The caller's content closure: what it paints, and returns, for `value` in
\* the scope it is handed.
add_contents(s, value) ==
  [value |-> value, layer |-> s.ui.layer, opacity |-> s.ui.opacity,
   clip |-> s.ui.clip, text_color |-> s.ui.text_color,
   transform |-> s.to_global[s.ui.layer]]

\* ----------------------------------------------------- scoped application
\* The calling Ui's own layer, the identity ignored.
animation_layer_of_ui(ui, id) == ui.layer

animation_layer(ui, id) == <<ui.layer[1], id>>

\* The child Ui of `ui.scope_builder(UiBuilder::new().id_salt(..).layer_id(..))`:
\* it inherits the parent's painter and style and lives on the given layer.
new_child(ui, layer_id) ==
  [ui EXCEPT !.id = Append(ui.id, "animation_scope"), !.layer = layer_id]

\* The content drawn before the segment's function has run.
scope_animation_content_first(ui, to_global, id, f, normal, value) ==
  LET layer_id == <<ui.layer[1], id>>
      child == [ui EXCEPT !.id = Append(ui.id, "animation_scope"), !.layer = layer_id]
      inner == add_contents([ui |-> child, to_global |-> to_global], value)
      mutated == CallFn(f, [ui |-> child, to_global |-> to_global], normal)
  IN [ui |-> ui, to_global |-> mutated.to_global,
      events |-> << [op |-> "add_contents", f |-> NoopFn, scope |-> child.id,
                     layer |-> child.layer],
                    [op |-> "anim_fn", f |-> f, scope |-> mutated.ui.id,
                     layer |-> mutated.ui.layer] >>,
      child |-> child, layer |-> layer_id,
      closure_result |-> inner, inner |-> inner]

\* The segment's function run on the calling Ui, before the child is opened.
scope_animation_on_parent(ui, to_global, id, f, normal, value) ==
  LET layer_id == <<ui.layer[1], id>>
      mutated == CallFn(f, [ui |-> ui, to_global |-> to_global], normal)
      child == [mutated.ui EXCEPT !.id = Append(ui.id, "animation_scope"),
                                  !.layer = layer_id]
      inner == add_contents([ui |-> child, to_global |-> mutated.to_global], value)
  IN [ui |-> mutated.ui, to_global |-> mutated.to_global,
      events |-> << [op |-> "anim_fn", f |-> f, scope |-> child.id,
                     layer |-> child.layer],
                    [op |-> "add_contents", f |-> NoopFn, scope |-> child.id,
                     layer |-> child.layer] >>,
      child |-> child, layer |-> layer_id,
      closure_result |-> inner, inner |-> inner]

\* Returns the parent Ui and the context as the call leaves them, the calls
\* made in order, the child as created, what the content closure returned
\* and what the call returns (`.inner`).
scope_animation(ui, to_global, id, f, normal, value) ==
  LET layer_id == animation_layer(ui, id)
      child == new_child(ui, layer_id)
      mutated == CallFn(f, [ui |-> child, to_global |-> to_global], normal)
      inner == add_contents(mutated, value)
  IN [ui |-> ui, to_global |-> mutated.to_global,
      events |-> << [op |-> "anim_fn", f |-> f, scope |-> child.id,
                     layer |-> child.layer],
                    [op |-> "add_contents", f |-> NoopFn, scope |-> mutated.ui.id,
                     layer |-> mutated.ui.layer] >>,
      child |-> child, layer |-> layer_id,
      closure_result |-> inner, inner |-> inner]

AnimationSegment_animate(self, ui, to_global, id, normal, value) ==
  scope_animation(ui, to_global, id, AnimationSegment_anim_fn(self), normal, value)

\* ------------------------------------------- the transition driver (4.4)
\* Transition State of one identity (3): the value last supplied, the value
\* it replaced, and the start of the current transition if there is one.
NoState ==
  [seen |-> FALSE, current |-> 3, previous |-> 3, started |-> FALSE, started_at |-> 0]

\* Created the first time the identity is seen; a supplied value that differs
\* from the stored one starts a transition at this frame's time.
\* A change that arrives while a transition is running keeps its timer.
update_state_keep_timer(st, value, t) ==
  IF ~st.seen
  THEN [seen |-> TRUE, current |-> value, previous |-> value,
        started |-> FALSE, started_at |-> 0]
  ELSE IF value # st.current
  THEN [seen |-> TRUE, current |-> value, previous |-> st.current,
        started |-> TRUE, started_at |-> IF st.started THEN st.started_at ELSE t]
  ELSE st

update_state(st, value, t) ==
  IF ~st.seen
  THEN [seen |-> TRUE, current |-> value, previous |-> value,
        started |-> FALSE, started_at |-> 0]
  ELSE IF value # st.current
  THEN [seen |-> TRUE, current |-> value, previous |-> st.current,
        started |-> TRUE, started_at |-> t]
  ELSE st

elapsed(st, t) == t - st.started_at

phase(st, t, animation) ==
  IF ~st.started THEN "Idle"
  ELSE IF elapsed(st, t) < AnimationSegment_duration(animation.out_seg) THEN "Out"
  ELSE IF elapsed(st, t) < Animation_duration(animation) THEN "In"
  ELSE "Idle"

\* `elapsed / out.duration` and `(elapsed - out.duration) / in.duration`.
out_progress(st, t, animation) ==
  <<elapsed(st, t), AnimationSegment_duration(animation.out_seg)>>

in_progress(st, t, animation) ==
  <<elapsed(st, t) - AnimationSegment_duration(animation.out_seg),
    AnimationSegment_duration(animation.in_seg)>>

\* Content rendered directly in the caller's scope: no segment, no child.
render_idle(ui, to_global, value) ==
  LET inner == add_contents([ui |-> ui, to_global |-> to_global], value)
  IN [ui |-> ui, to_global |-> to_global,
      events |-> << [op |-> "add_contents", f |-> NoopFn, scope |-> ui.id,
                     layer |-> ui.layer] >>,
      child |-> ui, layer |-> ui.layer,
      closure_result |-> inner, inner |-> inner]

\* The entry point: one call per frame per animated value.
animate(ui, to_global, st, t, id, value, animation) ==
  LET st1 == update_state(st, value, t)
      ph == phase(st1, t, animation)
      normal == CASE ph = "Out" -> out_progress(st1, t, animation)
                  [] ph = "In" -> in_progress(st1, t, animation)
                  [] OTHER -> Zero
      shown == IF ph = "Out" THEN st1.previous ELSE value
      r == CASE ph = "Out" ->
                  AnimationSegment_animate(animation.out_seg, ui, to_global, id,
                                           normal, shown)
             [] ph = "In" ->
                  AnimationSegment_animate(animation.in_seg, ui, to_global, id,
                                           normal, shown)
             [] OTHER -> render_idle(ui, to_global, shown)
  IN [state |-> st1, phase |-> ph, normal |-> normal, shown |-> shown,
      f |-> CASE ph = "Out" -> animation.out_seg.anim_fn
              [] ph = "In" -> animation.in_seg.anim_fn
              [] OTHER -> NoopFn,
      scoped |-> r]

\* ------------------------------------------------------------------ state
VARIABLES
  now,        \* the current frame's time
  build,      \* how the caller built its Animation: [ctor, d, d2, fns]
  animation,  \* the Animation it passes on every call
  states,     \* the driver's Transition State per identity
  called,     \* the identities applied so far in this frame
  parents,    \* the caller's scopes, by name
  to_global,  \* the context's transform per layer
  last,       \* what the latest call of `animate` did
  hist        \* per identity, a summary of its latest call

vars == <<now, build, animation, states, called, parents, to_global, last, hist>>

\* The caller's configuration: the constructor it uses and its arguments
\* (the example's default AnimationType for the functions).
DefaultFns == <<"slide_fade_left::OUT", "slide_fade_left::IN">>
Builds ==
  {[ctor |-> "EMPTY", d |-> 0, d2 |-> 0, fns |-> <<NoopFn, NoopFn>>]}
  \cup {[ctor |-> c, d |-> d, d2 |-> 0, fns |-> DefaultFns] :
          c \in {"new", "new_out", "new_in"}, d \in Durations}
  \cup {[ctor |-> "from_segments", d |-> d, d2 |-> d2, fns |-> DefaultFns] :
          d \in Durations, d2 \in Durations}

\* ExampleApp::into_anim and the documented constructors.
Build(b) ==
  CASE b.ctor = "new" -> Animation_new(b.d, b.fns[1], b.fns[2])
    [] b.ctor = "new_out" -> Animation_new_out(b.d, b.fns[1])
    [] b.ctor = "new_in" -> Animation_new_in(b.d, b.fns[2])
    [] b.ctor = "from_segments" ->
         Animation_from_segments(AnimationSegment_new(b.d, b.fns[1]),
                                 AnimationSegment_new(b.d2, b.fns[2]))
    [] OTHER -> Animation_EMPTY

NoTransforms == [l \in Layers |-> NoTransform]

NoHist ==
  [valid |-> FALSE, t |-> 0, phase |-> "Idle", normal |-> Zero,
   layer |-> InitialParents["central_panel"].layer, parent |-> "central_panel"]

NoCall ==
  [valid |-> FALSE, id |-> "a", t |-> 0, parent |-> "central_panel", value |-> 3,
   before |-> NoState, state |-> NoState, phase |-> "Idle", normal |-> Zero,
   shown |-> 3, f |-> NoopFn, events |-> <<>>,
   child |-> InitialParents["central_panel"],
   layer |-> InitialParents["central_panel"].layer,
   closure_result |-> add_contents([ui |-> InitialParents["central_panel"],
                                    to_global |-> NoTransforms], 3),
   ret |-> add_contents([ui |-> InitialParents["central_panel"],
                         to_global |-> NoTransforms], 3),
   parent_before |-> InitialParents["central_panel"],
   parent_after |-> InitialParents["central_panel"],
   touched |-> {}, earlier |-> {}, prev |-> NoHist]

Init ==
  /\ now = 0
  /\ build \in Builds
  /\ animation = Build(build)
  /\ states = [i \in Ids |-> NoState]
  /\ called = {}
  /\ parents = InitialParents
  /\ to_global = NoTransforms
  /\ last = NoCall
  /\ hist = [i \in Ids |-> NoHist]

\* The caller applies identity `id` with `value` from scope `p` in this frame.
Apply(id, value, p) ==
  /\ id \notin called
  /\ LET r == animate(parents[p], to_global, states[id], now, id, value, animation)
     IN /\ states' = [states EXCEPT ![id] = r.state]
        /\ parents' = [parents EXCEPT ![p] = r.scoped.ui]
        /\ to_global' = r.scoped.to_global
        /\ last' =
             [valid |-> TRUE, id |-> id, t |-> now, parent |-> p, value |-> value,
              before |-> states[id], state |-> r.state, phase |-> r.phase,
              normal |-> r.normal, shown |-> r.shown, f |-> r.f,
              events |-> r.scoped.events, child |-> r.scoped.child,
              layer |-> r.scoped.layer,
              closure_result |-> r.scoped.closure_result,
              ret |-> r.scoped.inner,
              parent_before |-> parents[p], parent_after |-> r.scoped.ui,
              touched |-> {l \in Layers : r.scoped.to_global[l] # to_global[l]},
              earlier |-> called, prev |-> hist[id]]
        /\ hist' = [hist EXCEPT ![id] =
             [valid |-> TRUE, t |-> now, phase |-> r.phase, normal |-> r.normal,
              layer |-> r.scoped.layer, parent |-> p]]
  /\ called' = called \cup {id}
  /\ UNCHANGED <<now, build, animation>>

\* The next frame: time advances, the host rebuilds its scopes and the
\* frame's layer transforms start unset.
BeginFrame(dt) ==
  /\ called = Ids
  /\ now + dt <= MaxTime
  /\ now' = now + dt
  /\ called' = {}
  /\ parents' = InitialParents
  /\ to_global' = NoTransforms
  /\ UNCHANGED <<build, animation, states, last, hist>>

Next ==
  \/ \E id \in Ids, value \in Values : Apply(id, value, "central_panel")
  \/ \E dt \in 1..MaxStep : BeginFrame(dt)

Spec == Init /\ [][Next]_vars

\* ------------------------------------- the scoped application on its own
\* AnimationSegment::animate applied to drawn arguments: any segment of the
\* example's functions, any of the caller's scopes, a few progress values.
AnimFns ==
  {"slide_fade_left::OUT", "slide_fade_left::IN", "clip_width::OUT",
   "clip_width::IN", "fade_red::OUT", "fade_red::IN"}
ScopeSegments ==
  {AnimationSegment_new(1, f) : f \in AnimFns} \cup {AnimationSegment_EMPTY}
ScopeNormals == {<<1, 4>>, <<1, 2>>}

InitScope ==
  /\ now = 0
  /\ build = [ctor |-> "EMPTY", d |-> 0, d2 |-> 0, fns |-> <<NoopFn, NoopFn>>]
  /\ animation = Animation_EMPTY
  /\ states = [i \in Ids |-> NoState]
  /\ called = {}
  /\ parents = InitialParents
  /\ to_global = NoTransforms
  /\ last = NoCall
  /\ hist = [i \in Ids |-> NoHist]

Animate(id, seg, normal, value, p) ==
  /\ id \notin called
  /\ LET r == AnimationSegment_animate(seg, parents[p], to_global, id, normal, value)
     IN /\ parents' = [parents EXCEPT ![p] = r.ui]
        /\ to_global' = r.to_global
        /\ last' =
             [valid |-> TRUE, id |-> id, t |-> now, parent |-> p, value |-> value,
              before |-> states[id], state |-> states[id], phase |-> "Scoped",
              normal |-> normal, shown |-> value, f |-> seg.anim_fn,
              events |-> r.events, child |-> r.child, layer |-> r.layer,
              closure_result |-> r.closure_result, ret |-> r.inner,
              parent_before |-> parents[p], parent_after |-> r.ui,
              touched |-> {l \in Layers : r.to_global[l] # to_global[l]},
              earlier |-> called, prev |-> hist[id]]
        /\ hist' = [hist EXCEPT ![id] =
             [valid |-> TRUE, t |-> now, phase |-> "Scoped", normal |-> Zero,
              layer |-> r.layer, parent |-> p]]
  /\ called' = called \cup {id}
  /\ UNCHANGED <<now, build, animation, states>>

\* The frame ends: the host rebuilds its scopes for the next one.
EndFrame ==
  /\ called = Ids
  /\ called' = {}
  /\ parents' = InitialParents
  /\ to_global' = NoTransforms
  /\ last' = NoCall
  /\ UNCHANGED <<now, build, animation, states, hist>>

NextScope ==
  \/ \E id \in Ids, seg \in ScopeSegments, normal \in ScopeNormals,
        value \in Values, p \in ParentNames : Animate(id, seg, normal, value, p)
  \/ EndFrame

SpecScope == InitScope /\ [][NextScope]_vars

\* ------------------------------------------------------------------ claims
EventOps(c) == [k \in 1..Len(c.events) |-> c.events[k].op]

\* C7: every scoped application (AnimationSegment::animate -> scope_animation)
\* invokes the segment's function exactly once and before the content
\* closure, invokes the content closure exactly once in the same child scope
\* (the Ui salted "animation_scope" on the animation layer, not the caller's),
\* the content is drawn with what the function set, and the call returns
\* exactly what the content closure returned.
C7_MutateThenContent ==
  last.valid =>
    /\ EventOps(last) = <<"anim_fn", "add_contents">>
    /\ last.events[1].f = last.f
    /\ last.events[1].scope = last.events[2].scope
    /\ last.events[1].layer = last.events[2].layer
    /\ last.events[1].scope = Append(InitialParents[last.parent].id, "animation_scope")
    /\ last.events[1].layer = <<InitialParents[last.parent].layer[1], last.id>>
    /\ last.ret = last.closure_result
    /\ last.ret.value = last.value
    /\ (last.f = "slide_fade_left::IN" =>
          /\ REq(last.ret.opacity, last.normal)
          /\ last.ret.transform.set)
    /\ (last.f = "clip_width::IN" => REq(last.ret.clip, last.normal))
    /\ (last.f = "fade_red::IN" => last.ret.text_color.some)

\* C7 witness: a scoped application of a function that sets the opacity and
\* the layer transform, whose content was drawn with both.
C7_Witness ==
  /\ last.valid
  /\ last.f = "slide_fade_left::IN"
  /\ last.normal = <<1, 4>>
  /\ Len(last.events) = 2
  /\ last.ret.opacity = <<1, 4>>
  /\ last.ret.transform.set

\* What a call draws when it is the only one of its frame.
DrawnAlone(c) ==
  add_contents(
    CallFn(c.f,
           [ui |-> new_child(InitialParents[c.parent],
                             <<InitialParents[c.parent].layer[1], c.id>>),
            to_global |-> NoTransforms],
           c.normal),
    c.shown)

C10_LayerStableAndDistinct ==
  /\ \A i, j \in Ids :
       (hist[i].valid /\ hist[j].valid /\ i # j) => hist[i].layer # hist[j].layer
  /\ last.valid =>
       /\ (last.prev.valid /\ last.prev.parent = last.parent) =>
            last.layer = last.prev.layer
       /\ last.layer[1] = InitialParents[last.parent].layer[1]
       /\ last.layer[2] = last.id
       /\ \A j \in Ids \ {last.id} : hist[j].valid => hist[j].layer # last.layer

\* C10 witness: an identity applied a second time from the same scope, while
\* the other identity was last applied from the same scope too.
C10_Witness ==
  /\ last.valid
  /\ last.prev.valid
  /\ last.prev.parent = last.parent
  /\ \E j \in Ids \ {last.id} : hist[j].valid /\ hist[j].parent = last.parent

\* ----------------------------------------------- claims about the driver
OutDur == animation.out_seg.duration
InDur == animation.in_seg.duration
Total == OutDur + InDur
\* The latest call found the supplied value different from the stored one.
Changed == last.before.seen /\ last.value # last.before.current
\* Time since the transition of the latest call's identity started.
SinceChange == last.t - last.state.started_at

\* C1: once an identity's value has changed at t0 and is held, every frame
\* before t0 + duration is in Transitioning-Out or Transitioning-In, every
\* frame at or after t0 + duration is Idle, and an identity that was Idle
\* at its previous frame stays Idle while its value does not change (as does
\* one whose value never changed).
C1_IdleAtTotalDuration ==
  last.valid =>
    /\ ~last.state.started => last.phase = "Idle"
    /\ last.state.started =>
         /\ SinceChange >= Total => last.phase = "Idle"
         /\ SinceChange < Total => last.phase \in {"Out", "In"}
    /\ (last.prev.valid /\ last.prev.phase = "Idle" /\ ~Changed) =>
         last.phase = "Idle"

\* C1 witness: the first frame at or after the end of a transition of at
\* least two steps, the frame before it still in the in segment.
C1_Witness ==
  /\ last.valid
  /\ last.state.started
  /\ ~Changed
  /\ Total >= 2
  /\ SinceChange >= Total
  /\ last.prev.phase = "In"
  /\ last.phase = "Idle"

\* C2: with e the time since the change, 0 <= e < out.duration applies the
\* out segment's function with e / out.duration and gives the content the
\* previous value; out.duration <= e < out.duration + in.duration applies the
\* in segment's function with (e - out.duration) / in.duration and gives the
\* content the new value.  For new_out(d, f) that is f with e / d on the
\* previous value while e < d; for new_in(d, g), g with e / d on the new one.
C2_SegmentProgressValue ==
  (last.valid /\ last.state.started) =>
    /\ (0 <= SinceChange /\ SinceChange < OutDur) =>
         /\ last.phase = "Out"
         /\ EventOps(last) = <<"anim_fn", "add_contents">>
         /\ last.events[1].f = animation.out_seg.anim_fn
         /\ last.normal = <<SinceChange, OutDur>>
         /\ last.shown = last.state.previous
         /\ last.ret.value = last.state.previous
         /\ last.state.previous # last.value
    /\ (OutDur <= SinceChange /\ SinceChange < OutDur + InDur) =>
         /\ last.phase = "In"
         /\ EventOps(last) = <<"anim_fn", "add_contents">>
         /\ last.events[1].f = animation.in_seg.anim_fn
         /\ last.normal = <<SinceChange - OutDur, InDur>>
         /\ last.shown = last.value
         /\ last.ret.value = last.value
    /\ (build.ctor = "new_out" /\ SinceChange < build.d) =>
         /\ last.events[1].f = build.fns[1]
         /\ last.normal = <<SinceChange, build.d>>
         /\ last.ret.value = last.state.previous
    /\ (build.ctor = "new_in" /\ SinceChange < build.d) =>
         /\ last.events[1].f = build.fns[2]
         /\ last.normal = <<SinceChange, build.d>>
         /\ last.ret.value = last.value

\* C2 witness: out = in = 2, the value went 3 -> 4; the frame before was in
\* the out segment, this one is 3 steps after the change: in segment, 1/2,
\* value 4.
C2_Witness ==
  /\ last.valid
  /\ last.state.started
  /\ OutDur = 2
  /\ InDur = 2
  /\ SinceChange = 3
  /\ last.prev.phase = "Out"
  /\ last.phase = "In"
  /\ last.normal = <<1, 2>>
  /\ last.state.previous = 3
  /\ last.ret.value = 4

\* C3: in every driver state, a supplied value that differs from the stored
\* one restarts the identity's timer at this frame's time and records the
\* stored value as the one the out segment shows: in that same frame the
\* elapsed time is 0, so the out segment starts at progress 0 with the old
\* value (or, with no out segment, the in segment at 0 with the new one).
C3_ChangeRestarts ==
  (last.valid /\ Changed) =>
    /\ last.state.started
    /\ last.state.started_at = last.t
    /\ last.state.previous = last.before.current
    /\ last.state.current = last.value
    /\ SinceChange = 0
    /\ OutDur > 0 =>
         /\ last.phase = "Out"
         /\ last.normal = <<0, OutDur>>
         /\ last.ret.value = last.before.current
    /\ (OutDur = 0 /\ InDur > 0) =>
         /\ last.phase = "In"
         /\ last.normal = <<0, InDur>>
         /\ last.ret.value = last.value

\* C3 witness: the value changes back while the transition started by the
\* previous change is still in its in segment.
C3_Witness ==
  /\ last.valid
  /\ Changed
  /\ last.before.started
  /\ last.t - last.before.started_at < Total
  /\ last.prev.phase = "In"
  /\ last.phase = "Out"
  /\ last.ret.value = last.before.current

\* C4: with Animation::EMPTY no call invokes a segment function, whether or
\* not the value changed: the content closure runs once, directly in the
\* caller's scope, with the current value, and its result is returned.
C4_EmptyNeverMutates ==
  (build.ctor = "EMPTY" /\ last.valid) =>
    /\ EventOps(last) = <<"add_contents">>
    /\ last.events[1].scope = InitialParents[last.parent].id
    /\ last.phase = "Idle"
    /\ last.shown = last.value
    /\ last.ret = last.closure_result
    /\ last.ret.value = last.value
    /\ last.ret.opacity = InitialParents[last.parent].opacity
    /\ last.touched = {}

\* C4 witness: a call with Animation::EMPTY in which the value changed.
C4_Witness ==
  /\ build.ctor = "EMPTY"
  /\ last.valid
  /\ Changed
  /\ Len(last.events) = 1

\* C5: with an out segment of duration 0 (as new_in and EMPTY build it) no
\* call is in Transitioning-Out and the out segment's function is never
\* invoked; the frame of the change is already in the in segment, or Idle if
\* that has duration 0 too; and no progress value has a zero denominator.
C5_ZeroOutSkipped ==
  last.valid =>
    /\ last.phase \in {"Out", "In"} => last.normal[2] > 0
    /\ OutDur = 0 =>
         /\ last.phase # "Out"
         /\ \A k \in 1..Len(last.events) :
              last.events[k].op = "anim_fn" =>
                (last.phase = "In" /\ last.events[k].f = animation.in_seg.anim_fn)
         /\ Changed => last.phase = (IF InDur > 0 THEN "In" ELSE "Idle")
    /\ build.ctor \in {"new_in", "EMPTY"} => last.phase # "Out"

\* C5 witness: new_in, the frame of the change: in segment at progress 0.
C5_Witness ==
  /\ last.valid
  /\ build.ctor = "new_in"
  /\ OutDur = 0
  /\ InDur > 0
  /\ Changed
  /\ last.phase = "In"
  /\ last.normal = <<0, InDur>>

\* The segment the identity's previous call applied is applied again, in the
\* same transition.
SameSegmentAgain ==
  /\ last.prev.valid
  /\ ~Changed
  /\ last.phase \in {"Out", "In"}
  /\ last.prev.phase = last.phase
\* The segment the identity's previous call applied is over at this call.
SegmentOver ==
  /\ last.prev.valid
  /\ ~Changed
  /\ last.prev.phase \in {"Out", "In"}
  /\ last.prev.phase # last.phase

C8_AsStated ==
  build.ctor = "new" =>
    /\ animation.out_seg.duration = animation.in_seg.duration
    /\ animation.out_seg.anim_fn = build.fns[1]
    /\ animation.in_seg.anim_fn = build.fns[2]
    /\ Animation_duration(animation) = build.d

\* C8: Animation::new(d, f, g) has two segments of equal duration, the f32
\* d / 2, with f on the out segment and g on the in segment.  Where d / 2
\* is exact (d an even number of 2^-149 steps: zero and every d from 2^-125
\* up) duration() = d; where it is not, d / 2 is rounded to the neighbour
\* with the even count and duration() is d plus or minus one step.
C8_NewSplitsEvenly ==
  build.ctor = "new" =>
    /\ animation.out_seg.duration = animation.in_seg.duration
    /\ animation.out_seg.anim_fn = build.fns[1]
    /\ animation.in_seg.anim_fn = build.fns[2]
    /\ build.d % 2 = 0 =>
         /\ 2 * animation.out_seg.duration = build.d
         /\ Animation_duration(animation) = build.d
    /\ build.d % 2 = 1 =>
         /\ animation.out_seg.duration % 2 = 0
         /\ 2 * animation.out_seg.duration \in {build.d - 1, build.d + 1}
         /\ Animation_duration(animation) = 2 * animation.out_seg.duration

\* C8 witness: Animation::new(3, f, g) in use: 3 / 2 rounds to 2, the two
\* segments last 2 steps each and duration() is 4; a call in the in segment.
C8_Witness ==
  /\ build.ctor = "new"
  /\ build.d = 3
  /\ animation.out_seg.duration = 2
  /\ animation.in_seg.duration = 2
  /\ Animation_duration(animation) = 4
  /\ last.valid
  /\ last.phase = "In"

====
